---- MODULE Spec2Model ----
(***************************************************************************)
(* Model of src/app.py: a Flask application with a SQLite users table,     *)
(* cookie sessions, a login gate and two upload endpoints.                 *)
(*                                                                         *)
(* Strings are sequences of one-character strings, so that strip(),        *)
(* rsplit(), lower() and secure_filename() are computed character by       *)
(* character as the code computes them.                                    *)
(*                                                                         *)
(* A flashed message is modelled as part of the response that carries it.  *)
(* A POST /register is two steps, its SELECT and its INSERT, so that        *)
(* requests on separate connections interleave between them; every other    *)
(* handler is one step.  The database starts empty and the upload           *)
(* directories start without files.                                         *)
(***************************************************************************)
EXTENDS Integers, Sequences, FiniteSets, Bags, TLC

(* ------------------------------------------------------------------ *)
(* Bounds                                                               *)
(* ------------------------------------------------------------------ *)
\* number of browser clients (each with its own session cookie)
NumClients == 2
\* number of POST /register requests that may be in flight at once
MaxInFlight == 2
\* number of distinct salts generate_password_hash may draw
NumSalts == 1

Clients == 1..NumClients
Salts == 1..NumSalts

(* ------------------------------------------------------------------ *)
(* Strings                                                              *)
(* ------------------------------------------------------------------ *)
Whitespace == {" "}

UpperCase == <<"A","B","C","D","E","F","G","H","I","J","K","L","M",
               "N","O","P","Q","R","S","T","U","V","W","X","Y","Z">>
LowerCase == <<"a","b","c","d","e","f","g","h","i","j","k","l","m",
               "n","o","p","q","r","s","t","u","v","w","x","y","z">>
Digits == {"0","1","2","3","4","5","6","7","8","9"}

\* str.lower() on one character
LowerChar(c) ==
    IF \E i \in 1..26 : UpperCase[i] = c
    THEN LowerCase[CHOOSE i \in 1..26 : UpperCase[i] = c]
    ELSE c

\* str.lower()
Lower(s) == [i \in 1..Len(s) |-> LowerChar(s[i])]

RECURSIVE LStripChars(_, _)
\* str.lstrip(chars)
LStripChars(s, chars) ==
    IF s = <<>> THEN <<>>
    ELSE IF Head(s) \in chars THEN LStripChars(Tail(s), chars)
    ELSE s

RECURSIVE RStripChars(_, _)
\* str.rstrip(chars)
RStripChars(s, chars) ==
    IF s = <<>> THEN <<>>
    ELSE IF s[Len(s)] \in chars THEN RStripChars(SubSeq(s, 1, Len(s) - 1), chars)
    ELSE s

\* str.strip(chars)
StripChars(s, chars) == RStripChars(LStripChars(s, chars), chars)

\* str.strip(): leading and trailing whitespace removed
Strip(s) == StripChars(s, Whitespace)

\* "." in filename
HasDot(s) == \E i \in 1..Len(s) : s[i] = "."

\* index of the last "." of s (s has one)
LastDot(s) == CHOOSE i \in 1..Len(s) : s[i] = "." /\ \A j \in (i+1)..Len(s) : s[j] # "."

\* filename.rsplit(".", 1)[1]: the text after the last dot
RSplitExt(s) == SubSeq(s, LastDot(s) + 1, Len(s))

ALLOWED_IMAGE_EXTENSIONS == { <<"j","p","g">>, <<"j","p","e","g">>, <<"p","n","g">> }
ALLOWED_VIDEO_EXTENSIONS == { <<"m","p","4">>, <<"a","v","i">>, <<"m","o","v">>, <<"m","k","v">> }

\* allowed_file(filename, allowed_exts)
allowed_file(filename, allowed_exts) ==
    HasDot(filename) /\ Lower(RSplitExt(filename)) \in allowed_exts

(* werkzeug.utils.secure_filename on ASCII input, POSIX separators:       *)
(*   filename.replace("/", " "); "_".join(filename.split());               *)
(*   drop every character outside [A-Za-z0-9_.-]; .strip("._")            *)
ReplaceSep(s) == [i \in 1..Len(s) |-> IF s[i] = "/" THEN " " ELSE s[i]]

RECURSIVE JoinRuns(_)
\* every run of whitespace inside an already stripped string becomes "_"
JoinRuns(s) ==
    IF s = <<>> THEN <<>>
    ELSE IF Head(s) \in Whitespace THEN <<"_">> \o JoinRuns(LStripChars(s, Whitespace))
    ELSE <<Head(s)>> \o JoinRuns(Tail(s))

\* "_".join(s.split())
SplitJoin(s) == JoinRuns(Strip(s))

SafeChars ==
    {UpperCase[i] : i \in 1..26} \cup {LowerCase[i] : i \in 1..26} \cup Digits \cup {"_", ".", "-"}

RECURSIVE AsciiStrip(_)
\* _filename_ascii_strip_re.sub("", s)
AsciiStrip(s) ==
    IF s = <<>> THEN <<>>
    ELSE IF Head(s) \in SafeChars THEN <<Head(s)>> \o AsciiStrip(Tail(s))
    ELSE AsciiStrip(Tail(s))

secure_filename(filename) ==
    StripChars(AsciiStrip(SplitJoin(ReplaceSep(filename))), {".", "_"})

(* ------------------------------------------------------------------ *)
(* Password hashing (werkzeug.security)                                 *)
(* ------------------------------------------------------------------ *)
\* the one-way digest of a password under a salt
Digest(salt, password) == <<"digest", salt, password>>

\* generate_password_hash(password): "method$salt$digest" with a fresh salt
generate_password_hash(password, salt) ==
    [salt |-> salt, digest |-> Digest(salt, password)]

\* check_password_hash(pwhash, password): recompute under the stored salt
check_password_hash(pwhash, password) ==
    pwhash.digest = Digest(pwhash.salt, password)

(* ------------------------------------------------------------------ *)
(* Request inputs                                                       *)
(* ------------------------------------------------------------------ *)
\* form values sent as "username"
UsernameInputs == { <<>>, <<"a","b">>, <<" ","b","o","b"," ">>, <<"a","m","y">> }
\* form values sent as "password" to /register
PasswordInputs == { <<>>, <<"p","w">>, <<" ","p","w"," ">> }
\* form values sent as "confirm_password" to /register
ConfirmInputs == { <<>>, <<"p","w">>, <<"x">> }
\* form values sent as "password" to /login
LoginPasswordInputs == { <<"p","w"," ">>, <<"x">> }

\* the narrower inputs of the specification that also runs the upload routes
FewUsernameInputs == { <<"a","b">>, <<" ","b","o","b"," ">> }
FewPasswordInputs == { <<" ","p","w"," ">> }
FewConfirmInputs == { <<"p","w">>, <<"x">> }

\* request.files.get(field): None, or a FileStorage with its client-supplied filename
NoFile == [present |-> FALSE, filename |-> <<>>]
File(name) == [present |-> TRUE, filename |-> name]
FileInputs ==
    { NoFile,
      File(<<>>),
      File(<<"a",".","e","x","e">>),
      File(<<"/","a",".","P","N","G">>),
      File(<<".","p","n","g">>),
      File(<<"v",".","m","p","4">>),
      File(<<"x"," ","y",".","M","K","V">>) }

(* ------------------------------------------------------------------ *)
(* State                                                                *)
(* ------------------------------------------------------------------ *)
VARIABLES
    users,      \* the users table: rows in insertion order
    session,    \* the session cookie of each client
    pending,    \* the POST /register requests between their SELECT and their INSERT
    imageDir,   \* names of the files under static/uploads/images
    videoDir,   \* names of the files under static/uploads/videos
    registered, \* history: the registrations that succeeded
    last        \* the request handled by the latest step, and its response

vars == <<users, session, pending, imageDir, videoDir, registered, last>>

\* session.get(key) of an absent key
NoneId == 0
NoneName == <<>>
\* session.clear(), and the session of a client that never logged in
EmptySession == [user_id |-> NoneId, username |-> NoneName]

NoFlash == <<>>
\* redirect(url_for(endpoint)) after flash(message, category)
Redirect(endpoint, flashed) == [kind |-> "redirect", target |-> endpoint, flash |-> flashed]
\* render_template(template) after flash(message, category)
Render(template, flashed) == [kind |-> "render", target |-> template, flash |-> flashed]
\* an exception nobody catches: Flask answers 500
Unhandled(exception) == [kind |-> "error", target |-> exception, flash |-> NoFlash]
\* the handler has not returned yet
Pending == [kind |-> "pending", target |-> "", flash |-> NoFlash]

\* what a step records: the route, the client, the row login looked up, the response
Handled(op, c, found, resp) == [op |-> op, client |-> c, user |-> found, resp |-> resp]

\* register() reads and writes no session key: its requests carry no client
NoClient == 0

\* SELECT ... FROM users WHERE username = ?  (fetchone)
SelectByUsername(table, username) ==
    { i \in 1..Len(table) : table[i].username = username }

\* id INTEGER PRIMARY KEY AUTOINCREMENT: no row is ever deleted
NextId(table) == Len(table) + 1

\* init_db() on a fresh database file; no request handled yet
Init ==
    /\ users = <<>>
    /\ session = [c \in Clients |-> EmptySession]
    /\ pending = EmptyBag
    /\ imageDir = {}
    /\ videoDir = {}
    /\ registered = {}
    /\ last = Handled("start", NoClient, NoneId, Pending)

\* a guard that lets every request through
LoggedInUnguarded(s) == TRUE

\* the guard of login_required: session.get("user_id") is truthy
LoggedIn(s) == s.user_id # NoneId

(* ------------------------------------------------------------------ *)
(* Auth routes                                                          *)
(* ------------------------------------------------------------------ *)
\* GET /register
RegisterGet ==
    /\ last' = Handled("register_get", NoClient, NoneId, Render("register.html", NoFlash))
    /\ UNCHANGED <<users, session, pending, imageDir, videoDir, registered>>

\* the checks without the comparison of password and confirmation
RegisterCheckNoConfirm(table, username, password, confirm) ==
    IF username = <<>> \/ password = <<>> \/ confirm = <<>>
    THEN <<"Please fill in all fields.", "warning">>
    ELSE IF Len(username) < 3
    THEN <<"Username must be at least 3 characters.", "warning">>
    ELSE IF SelectByUsername(table, username) # {}
    THEN <<"Username is already taken. Please choose another.", "warning">>
    ELSE NoFlash

\* the checks of POST /register in the order of the code: the flash of the
\* first one that fails, or no flash when all pass
RegisterCheck(table, username, password, confirm) ==
    IF username = <<>> \/ password = <<>> \/ confirm = <<>>
    THEN <<"Please fill in all fields.", "warning">>
    ELSE IF password # confirm
    THEN <<"Passwords do not match.", "warning">>
    ELSE IF Len(username) < 3
    THEN <<"Username must be at least 3 characters.", "warning">>
    ELSE IF SelectByUsername(table, username) # {}
    THEN <<"Username is already taken. Please choose another.", "warning">>
    ELSE NoFlash

\* POST /register up to the existence check
RegisterPost(u, p, cf) ==
    /\ BagCardinality(pending) < MaxInFlight
    /\ LET username == Strip(u)
           password == Strip(p)
           confirm == Strip(cf)
           failed == RegisterCheck(users, username, password, confirm)
       IN  IF failed # NoFlash
           THEN /\ last' = Handled("register", NoClient, NoneId, Redirect("register", failed))
                /\ pending' = pending
           ELSE /\ last' = Handled("register", NoClient, NoneId, Pending)
                /\ pending' = pending (+) SetToBag({[username |-> username, password |-> password]})
    /\ UNCHANGED <<users, session, imageDir, videoDir, registered>>

\* an INSERT into a table whose username column is not UNIQUE
DbInsertNoUnique(table, username, password_hash) ==
    [ok |-> TRUE,
     table |-> Append(table, [id |-> NextId(table), username |-> username,
                              password_hash |-> password_hash])]

\* INSERT INTO users under the UNIQUE constraint of the username column
DbInsert(table, username, password_hash) ==
    IF SelectByUsername(table, username) # {}
    THEN [ok |-> FALSE, table |-> table]
    ELSE [ok |-> TRUE,
          table |-> Append(table, [id |-> NextId(table), username |-> username,
                                   password_hash |-> password_hash])]

\* POST /register from generate_password_hash to the final redirect; the
\* INSERT and its commit take the database write lock, so they are one step
RegisterInsert(r, salt) ==
    /\ r \in BagToSet(pending)
    /\ LET password_hash == generate_password_hash(r.password, salt)
           done == DbInsert(users, r.username, password_hash)
       IN  /\ users' = done.table
           /\ IF done.ok
              THEN /\ last' = Handled("register", NoClient, NoneId,
                                  Redirect("login",
                                      <<"Account created successfully. Please log in.", "success">>))
                   /\ registered' = registered \cup
                          {[username |-> r.username, password |-> r.password,
                            id |-> done.table[Len(done.table)].id]}
              ELSE /\ last' = Handled("register", NoClient, NoneId,
                                      Unhandled("sqlite3.IntegrityError"))
                   /\ registered' = registered
    /\ pending' = pending (-) SetToBag({r})
    /\ UNCHANGED <<session, imageDir, videoDir>>

\* GET /login
LoginGet ==
    /\ last' = Handled("login_get", NoClient, NoneId, Render("login.html", NoFlash))
    /\ UNCHANGED <<users, session, pending, imageDir, videoDir, registered>>

\* the form of POST /login read without strip()
LoginFormNoStrip(u, p) == [username |-> u, password |-> p]

\* the form of POST /login: both fields stripped
LoginForm(u, p) == [username |-> Strip(u), password |-> Strip(p)]

\* the row fetchone() returns for the username, as a set of at most one row
LoginRow(table, username) == { table[i] : i \in SelectByUsername(table, username) }

\* a login that tells an unknown username from a wrong password
LoginResultTelling(table, s, username, password) ==
    LET row == LoginRow(table, username)
        found == IF row = {} THEN NoneId ELSE (CHOOSE user \in row : TRUE).id
    IN  IF \E user \in row : check_password_hash(user.password_hash, password)
        THEN LET user == CHOOSE user \in row : TRUE
             IN  [session |-> [user_id |-> user.id, username |-> user.username],
                  found |-> found,
                  resp |-> Redirect("index", <<"Logged in successfully.", "success">>)]
        ELSE [session |-> s, found |-> found,
              resp |-> IF row = {}
                       THEN Render("login.html", <<"Unknown username.", "danger">>)
                       ELSE Render("login.html", <<"Invalid username or password.", "danger">>)]

\* a login whose failure branch does not flash
LoginResultSilent(table, s, username, password) ==
    LET row == LoginRow(table, username)
        found == IF row = {} THEN NoneId ELSE (CHOOSE user \in row : TRUE).id
    IN  IF \E user \in row : check_password_hash(user.password_hash, password)
        THEN LET user == CHOOSE user \in row : TRUE
             IN  [session |-> [user_id |-> user.id, username |-> user.username],
                  found |-> found,
                  resp |-> Redirect("index", <<"Logged in successfully.", "success">>)]
        ELSE [session |-> s, found |-> found, resp |-> Render("login.html", NoFlash)]

\* POST /login after the form is read: the session it leaves, the row it
\* found and its response
LoginResult(table, s, username, password) ==
    LET row == LoginRow(table, username)
        found == IF row = {} THEN NoneId ELSE (CHOOSE user \in row : TRUE).id
    IN  IF \E user \in row : check_password_hash(user.password_hash, password)
        THEN LET user == CHOOSE user \in row : TRUE
             IN  [session |-> [user_id |-> user.id, username |-> user.username],
                  found |-> found,
                  resp |-> Redirect("index", <<"Logged in successfully.", "success">>)]
        ELSE [session |-> s, found |-> found,
              resp |-> Render("login.html", <<"Invalid username or password.", "danger">>)]

\* POST /login
LoginPost(c, u, p) ==
    /\ LET form == LoginForm(u, p)
           done == LoginResult(users, session[c], form.username, form.password)
       IN  /\ session' = [session EXCEPT ![c] = done.session]
           /\ last' = Handled("login", c, done.found, done.resp)
    /\ UNCHANGED <<users, pending, imageDir, videoDir, registered>>

\* a logout that forgets the username and keeps the user id
LogoutResultKeepsId(s) ==
    IF ~LoggedIn(s)
    THEN [session |-> s, resp |-> Redirect("login", NoFlash)]
    ELSE [session |-> [s EXCEPT !.username = NoneName],
          resp |-> Redirect("login", <<"You have been logged out.", "info">>)]

\* GET /logout: the session it leaves and its response
LogoutResult(s) ==
    IF ~LoggedIn(s)
    THEN [session |-> s, resp |-> Redirect("login", NoFlash)]
    ELSE [session |-> EmptySession,
          resp |-> Redirect("login", <<"You have been logged out.", "info">>)]

\* GET /logout
Logout(c) ==
    /\ LET done == LogoutResult(session[c])
       IN  /\ session' = [session EXCEPT ![c] = done.session]
           /\ last' = Handled("logout", c, NoneId, done.resp)
    /\ UNCHANGED <<users, pending, imageDir, videoDir, registered>>

(* ------------------------------------------------------------------ *)
(* Protected UI routes                                                  *)
(* ------------------------------------------------------------------ *)
\* GET /
Index(c) ==
    /\ last' = Handled("index", c, NoneId,
                       IF ~LoggedIn(session[c])
                       THEN Redirect("login", NoFlash)
                       ELSE Render("index.html", NoFlash))
    /\ UNCHANGED <<users, session, pending, imageDir, videoDir, registered>>

\* an upload that does not look at the extension
UploadAnyExtension(s, f, dir, allowed_exts, template, missing, unsupported) ==
    IF ~LoggedIn(s)
    THEN [resp |-> Redirect("login", NoFlash), dir |-> dir]
    ELSE IF ~f.present \/ f.filename = <<>>
    THEN [resp |-> Redirect("index", <<missing, "warning">>), dir |-> dir]
    ELSE [resp |-> Render(template, NoFlash), dir |-> dir \cup {secure_filename(f.filename)}]

\* the body shared by search_image and search_video: the response and the
\* names in the upload directory afterwards
Upload(s, f, dir, allowed_exts, template, missing, unsupported) ==
    IF ~LoggedIn(s)
    THEN [resp |-> Redirect("login", NoFlash), dir |-> dir]
    ELSE IF ~f.present \/ f.filename = <<>>
    THEN [resp |-> Redirect("index", <<missing, "warning">>), dir |-> dir]
    ELSE IF ~allowed_file(f.filename, allowed_exts)
    THEN [resp |-> Redirect("index", <<unsupported, "warning">>), dir |-> dir]
    ELSE [resp |-> Render(template, NoFlash), dir |-> dir \cup {secure_filename(f.filename)}]

\* POST /search-image
SearchImage(c, f) ==
    /\ LET done == Upload(session[c], f, imageDir, ALLOWED_IMAGE_EXTENSIONS, "image_results.html",
                          "Please choose a sketch or photo to upload.",
                          "Unsupported image type. Please upload a JPG or PNG.")
       IN  /\ imageDir' = done.dir
           /\ last' = Handled("search_image", c, NoneId, done.resp)
    /\ UNCHANGED <<users, session, pending, videoDir, registered>>

\* POST /search-video
SearchVideo(c, f) ==
    /\ LET done == Upload(session[c], f, videoDir, ALLOWED_VIDEO_EXTENSIONS, "video_results.html",
                          "Please choose a CCTV/video file to upload.",
                          "Unsupported video type. Please upload MP4 / AVI / MOV / MKV.")
       IN  /\ videoDir' = done.dir
           /\ last' = Handled("search_video", c, NoneId, done.resp)
    /\ UNCHANGED <<users, session, pending, imageDir, registered>>

(* ------------------------------------------------------------------ *)
(* Specifications                                                       *)
(* ------------------------------------------------------------------ *)
\* the whole application, on the narrower auth inputs
Next ==
    \/ RegisterGet
    \/ \E u \in FewUsernameInputs, p \in FewPasswordInputs, cf \in FewConfirmInputs :
          RegisterPost(u, p, cf)
    \/ \E r \in BagToSet(pending), salt \in Salts : RegisterInsert(r, salt)
    \/ LoginGet
    \/ \E c \in Clients, u \in FewUsernameInputs, p \in LoginPasswordInputs : LoginPost(c, u, p)
    \/ \E c \in Clients : Logout(c)
    \/ \E c \in Clients : Index(c)
    \/ \E c \in Clients, f \in FileInputs : SearchImage(c, f)
    \/ \E c \in Clients, f \in FileInputs : SearchVideo(c, f)

Spec == Init /\ [][Next]_vars

\* the auth routes and the dashboard, on the wider auth inputs
NextAuth ==
    \/ RegisterGet
    \/ \E u \in UsernameInputs, p \in PasswordInputs, cf \in ConfirmInputs :
          RegisterPost(u, p, cf)
    \/ \E r \in BagToSet(pending), salt \in Salts : RegisterInsert(r, salt)
    \/ LoginGet
    \/ \E c \in Clients, u \in UsernameInputs, p \in LoginPasswordInputs : LoginPost(c, u, p)
    \/ \E c \in Clients : Logout(c)
    \/ \E c \in Clients : Index(c)

SpecAuth == Init /\ [][NextAuth]_vars

(* ------------------------------------------------------------------ *)
(* Properties                                                           *)
(* ------------------------------------------------------------------ *)
\* the routes the claims call protected
ProtectedOps == {"index", "search_image", "search_video"}

\* the session of client c holds no user id
NoUserId(s) == s.user_id = NoneId

\* the text after the last dot of a stored name is in the allow-list
ExtensionIn(name, exts) ==
    \E i \in 1..Len(name) :
        /\ name[i] = "."
        /\ \A j \in (i+1)..Len(name) : name[j] # "."
        /\ Lower(SubSeq(name, i + 1, Len(name))) \in exts

\* some row has the trimmed username and a hash the trimmed password verifies against
CredentialsMatch(table, u, p) ==
    \E i \in 1..Len(table) :
        /\ table[i].username = Strip(u)
        /\ table[i].password_hash.digest = Digest(table[i].password_hash.salt, Strip(p))

\* the response of POST /login for a username that has no row
NoSuchUserResponse == Render("login.html", <<"Invalid username or password.", "danger">>)

\* C1: a request to /, /search-image or /search-video by a client whose
\* session holds no user id is answered with a redirect to /login and writes
\* no file; a dashboard or results page goes only to a session that holds the
\* id and name of a users row, and a session gets a user id only by a login
\* that was accepted.
C1_LoginGate ==
    [][\A c \in Clients :
        /\ (last'.op \in ProtectedOps /\ last'.client = c /\ NoUserId(session[c]))
              => /\ last'.resp = Redirect("login", NoFlash)
                 /\ imageDir' = imageDir
                 /\ videoDir' = videoDir
        /\ (last'.op \in ProtectedOps /\ last'.client = c /\ last'.resp.kind = "render")
              => \E i \in 1..Len(users) :
                    /\ session[c].user_id = users[i].id
                    /\ session[c].username = users[i].username
        /\ (NoUserId(session[c]) /\ ~NoUserId(session'[c]))
              => /\ last'.op = "login"
                 /\ last'.client = c
                 /\ last'.resp = Redirect("index", <<"Logged in successfully.", "success">>)
      ]_vars

\* an upload by a client without a user id was turned away while users exist
C1_Witness ==
    /\ last.op \in {"search_image", "search_video"}
    /\ NoUserId(session[last.client])
    /\ last.resp = Redirect("login", NoFlash)
    /\ users # <<>>

\* the conditions of C2 on the three form fields and the table
RegisterFieldsValid(table, u, p, cf) ==
    /\ Strip(u) # <<>>
    /\ Strip(p) # <<>>
    /\ Strip(cf) # <<>>
    /\ Strip(p) = Strip(cf)
    /\ Len(Strip(u)) >= 3
    /\ \A i \in 1..Len(table) : table[i].username # Strip(u)

\* C2: POST /register inserts a user row only for a request whose trimmed
\* fields were all non-empty, whose password equalled its confirmation, whose
\* username had at least 3 characters and for which no row with that username
\* existed; a request failing one of these conditions leaves the users table
\* unchanged and is answered with a warning and a redirect to the register form.
\* (First conjunct: a register step that is anything but such a rejection is
\* the step of no request that fails a condition.)
C2_RegisterRejects ==
    [][/\ (last'.op = "register"
             /\ ~(/\ users' = users
                  /\ pending' = pending
                  /\ last'.resp.kind = "redirect"
                  /\ last'.resp.target = "register"
                  /\ Len(last'.resp.flash) = 2
                  /\ last'.resp.flash[2] = "warning"))
            => \A u \in UsernameInputs, p \in PasswordInputs, cf \in ConfirmInputs :
                  ~(~RegisterFieldsValid(users, u, p, cf) /\ RegisterPost(u, p, cf))
       /\ users' # users
            => \E r \in BagToSet(pending) :
                  /\ Len(r.username) >= 3
                  /\ r.password # <<>>
                  /\ \A i \in 1..Len(users) : users[i].username # r.username
                  /\ Len(users') = Len(users) + 1
                  /\ SubSeq(users', 1, Len(users)) = users
                  /\ users'[Len(users')].username = r.username
      ]_vars

\* a registration was turned away for a password/confirmation mismatch
C2_Witness ==
    /\ last.op = "register"
    /\ last.resp = Redirect("register", <<"Passwords do not match.", "warning">>)

\* C3: a POST /login with an existing username and a wrong password and one
\* with a username that has no row produce the same response, and neither
\* changes the session; login changes the session only when the row exists and
\* the password verifies against its hash.
C3_SameFailure ==
    /\ \A c \in Clients, u \in UsernameInputs, p \in LoginPasswordInputs :
          LET form == LoginForm(u, p)
              done == LoginResult(users, session[c], form.username, form.password)
          IN  /\ ~CredentialsMatch(users, u, p)
                    => /\ done.resp = NoSuchUserResponse
                       /\ done.session = session[c]
              /\ done.session # session[c] => CredentialsMatch(users, u, p)
    /\ (last.op = "login" /\ last.resp.kind # "redirect") => last.resp = NoSuchUserResponse

\* a login with an existing username and a wrong password was rejected
C3_Witness ==
    /\ last.op = "login"
    /\ last.user # NoneId
    /\ last.resp = NoSuchUserResponse

\* C4: the users table holds at most one row per username in every reachable
\* state, and no step adds a row for a username that is already stored.
C4_UniqueUsername ==
    /\ [](\A i, j \in 1..Len(users) : users[i].username = users[j].username => i = j)
    /\ [][users' # users
            => /\ Len(users') = Len(users) + 1
               /\ SubSeq(users', 1, Len(users)) = users
               /\ \A i \in 1..Len(users) : users[i].username # users'[Len(users')].username
         ]_vars

\* a registration lost its username to a concurrent one and added no row
C4_Witness ==
    /\ last.op = "register"
    /\ last.resp.kind = "error"
    /\ Len(users) = 1

\* C5: every registration request that loses the username to another is
\* reported with a flash warning and a redirect to the register form; no
\* registration request ends in an unhandled error.
C5_NoUnhandledError ==
    (last.op = "register" /\ last.resp.kind # "pending")
        => \/ last.resp = Redirect("login",
                            <<"Account created successfully. Please log in.", "success">>)
           \/ /\ last.resp.kind = "redirect"
              /\ last.resp.target = "register"
              /\ Len(last.resp.flash) = 2
              /\ last.resp.flash[2] = "warning"

\* C6: every name stored in the image directory has an extension among jpg,
\* jpeg, png and every name stored in the video directory one among mp4, avi,
\* mov, mkv.
C6_OnlyAllowedExtensions ==
    /\ \A name \in imageDir : ExtensionIn(name, ALLOWED_IMAGE_EXTENSIONS)
    /\ \A name \in videoDir : ExtensionIn(name, ALLOWED_VIDEO_EXTENSIONS)

\* the file of a request is missing, unnamed or of an extension outside exts
FileRefused(f, exts) ==
    \/ ~f.present
    \/ f.filename = <<>>
    \/ ~ExtensionIn(f.filename, exts)

\* the step answers with a warning and a redirect to the dashboard and leaves
\* both upload directories as they were
C7_Rejected ==
    /\ last'.resp.kind = "redirect"
    /\ last'.resp.target = "index"
    /\ Len(last'.resp.flash) = 2
    /\ last'.resp.flash[2] = "warning"
    /\ imageDir' = imageDir
    /\ videoDir' = videoDir

\* C7: a POST to /search-image or /search-video by a logged-in client with no
\* file, an empty filename or an extension outside the endpoint's allow-list
\* is answered with a redirect to the dashboard and a warning, and leaves both
\* upload directories unchanged.  (An upload step that is anything but such a
\* rejection is the step of no logged-in request whose file is refused.)
C7_UploadRejects ==
    [][/\ (last'.op = "search_image" /\ ~C7_Rejected)
            => \A f \in FileInputs :
                  ~(/\ FileRefused(f, ALLOWED_IMAGE_EXTENSIONS)
                    /\ ~NoUserId(session[last'.client])
                    /\ SearchImage(last'.client, f))
       /\ (last'.op = "search_video" /\ ~C7_Rejected)
            => \A f \in FileInputs :
                  ~(/\ FileRefused(f, ALLOWED_VIDEO_EXTENSIONS)
                    /\ ~NoUserId(session[last'.client])
                    /\ SearchVideo(last'.client, f))
      ]_vars

\* a logged-in client's image upload was turned away for its extension
C7_Witness ==
    /\ last.op = "search_image"
    /\ ~NoUserId(session[last.client])
    /\ last.resp = Redirect("index",
                     <<"Unsupported image type. Please upload a JPG or PNG.", "warning">>)

\* C8: a /logout by a logged-in client leaves its session without user id and
\* username and is answered with a redirect to /login; from then on the
\* session gets a user id only by an accepted login of that client, and until
\* then its requests to protected routes are redirected to /login.
C8_Logout ==
    [][\A c \in Clients :
        /\ (last'.op = "logout" /\ last'.client = c /\ ~NoUserId(session[c]))
              => /\ session'[c].user_id = NoneId
                 /\ session'[c].username = NoneName
                 /\ last'.resp.kind = "redirect"
                 /\ last'.resp.target = "login"
        /\ (NoUserId(session[c]) /\ ~(last'.op = "login" /\ last'.client = c
                                       /\ last'.resp.kind = "redirect"))
              => NoUserId(session'[c])
        /\ (NoUserId(session[c]) /\ last'.client = c
              /\ last'.op \in ProtectedOps \cup {"logout"})
              => /\ last'.resp.kind = "redirect"
                 /\ last'.resp.target = "login"
      ]_vars

\* a logged-in client has just logged out
C8_Witness ==
    /\ last.op = "logout"
    /\ last.resp = Redirect("login", <<"You have been logged out.", "info">>)
    /\ session[last.client] = EmptySession

\* C9 as stated: every POST /login is answered with a redirect and a flash.
C9_AlwaysRedirect ==
    last.op = "login"
        => /\ last.resp.kind = "redirect"
           /\ last.resp.target \in {"index", "login"}
           /\ last.resp.flash # NoFlash

\* C9 as amended: every POST /login is answered with a flash message: a
\* redirect to / when the credentials are accepted, and the login form
\* rendered in the same response when they are rejected.
C9_LoginAnswer ==
    [][last'.op = "login"
        => \A u \in UsernameInputs, p \in LoginPasswordInputs :
              \/ /\ Len(last'.resp.flash) = 2
                 /\ IF CredentialsMatch(users, u, p)
                    THEN last'.resp.kind = "redirect" /\ last'.resp.target = "index"
                    ELSE last'.resp.kind = "render" /\ last'.resp.target = "login.html"
              \/ ~LoginPost(last'.client, u, p)
      ]_vars

\* a login was rejected and the form rendered with the flash
C9_Witness ==
    /\ last.op = "login"
    /\ last.resp.kind = "render"
    /\ last.resp.flash # NoFlash

\* C10: once a registration has succeeded for a username and password, every
\* later POST /login with them is accepted and sets the session's user id and
\* username to those of the row that registration created; no step changes or
\* removes an existing row.
C10_RegisteredCanLogin ==
    [][/\ last'.op = "login"
            => \A g \in registered, u \in UsernameInputs, p \in LoginPasswordInputs :
                  (g.username = Strip(u) /\ g.password = Strip(p))
                     => \/ /\ session'[last'.client] = [user_id |-> g.id, username |-> g.username]
                           /\ last'.resp = Redirect("index", <<"Logged in successfully.", "success">>)
                        \/ ~LoginPost(last'.client, u, p)
       /\ \A i \in 1..Len(users) : Len(users') >= i /\ users'[i] = users[i]
      ]_vars

\* the first registered user logged in after a second registration
C10_Witness ==
    /\ last.op = "login"
    /\ last.resp.kind = "redirect"
    /\ Len(users) = 2
    /\ session[last.client].user_id = 1

====
